---- MODULE Spec2Model ----
(***************************************************************************)
(* bashdrop-server.py: a one-shot TCP relay.  main() stages one upload     *)
(* (accept_upload) and then serves it to one client (serve_download).      *)
(*                                                                         *)
(* The program is executed twice, on the same network events, from two     *)
(* command lines that differ in the password and/or the filename: `run'    *)
(* and `twin'.  Each is a record holding the whole state of one execution  *)
(* (the process, its sockets, its temporary directory and the kernel's     *)
(* listen queue).  Every step gives both executions the same input.        *)
(***************************************************************************)
EXTENDS Naturals, Sequences, FiniteSets

VARIABLES run, twin

vars == <<run, twin>>

(***************************** bounds ***************************************)
\* recv/read buffer; 131072 in the source, scaled down so that a transfer
\* takes several chunks
CHUNK_SIZE == 2
\* bytes one client sends at most
MaxLen == 3
\* client connections made during one execution
MaxConns == 3
\* seconds a blocked recv is followed
MaxWait == 3

(************************* program constants ********************************)
PROBE_WAIT == 2
DEFAULT_PORT == 9000
BACKLOG == 1
EXIT_INTERRUPT == 130

Bytes == {"a", "b"}
Ports == {DEFAULT_PORT, DEFAULT_PORT + 1}
Passwords == {"pw1", "pw2"}
Names == {"file", "other"}
\* what the client of the download phase holds as password
ClientKnows == {"pw1", "none"}

\* an optional value: None, or Some(x)
None == {}
Some(x) == {x}
NoFile == "NoFile"
NoSock == [port |-> 0, listening |-> FALSE]

Min(a, b) == IF a < b THEN a ELSE b

\* the values recv(CHUNK_SIZE) may return when data arrives
Chunks == UNION {[1..k -> Bytes] : k \in 1..CHUNK_SIZE}

Range(f) == {f[i] : i \in DOMAIN f}

(************************** helpers of the source ***************************)
\* listen_once(port): a socket bound to the port, listening
listen_once(port) == [port |-> port, listening |-> TRUE]

\* socket.close() of a listening socket: connections still in its queue
\* are reset by the kernel
sock_close(s, which) ==
    [s EXCEPT ![which] = [@ EXCEPT !.listening = FALSE],
              !.reset = @ \cup Range(s.backlog),
              !.backlog = <<>>]

\* conn.close()
conn_close(s) == [s EXCEPT !.open = @ \ {s.conn}]

\* a settimeout that cannot switch the timeout off again
settimeout_sticky(s, t) == [s EXCEPT !.timeout = IF t = {} THEN @ ELSE t]

\* conn.settimeout(t)
settimeout(s, t) == [s EXCEPT !.timeout = t]

\* print(...)
print(s, msg) == [s EXCEPT !.out = Append(@, msg)]

\* os.remove(staged_path), errors ignored
os_remove(s) == [s EXCEPT !.staged = NoFile]

\* os.rmdir(tmp_dir), errors ignored: a directory that still holds the
\* file is not removed
os_rmdir(s) == IF s.staged = NoFile THEN [s EXCEPT !.tmp_dir = FALSE] ELSE s

\* the directory removed before the file
cleanup_rmdir_first(s) == os_remove(os_rmdir(s))

\* the two try blocks that end main() and its upload interrupt handler
cleanup(s) == os_rmdir(os_remove(s))

\* sys.exit(code), or falling off the end of main (0), or an uncaught
\* exception (1); the kernel closes what the process left open
sys_exit(s, code) ==
    [s EXCEPT !.pc = "exit", !.status = Some(code), !.open = {},
              !.reset = @ \cup Range(s.backlog), !.backlog = <<>>,
              !.up_sock = [@ EXCEPT !.listening = FALSE],
              !.down_sock = [@ EXCEPT !.listening = FALSE]]

\* banner, print_sender_commands, print_receiver_commands: the text
\* carries the port, the filename and the password
commands(port, bname, password) == <<"commands", port, bname, password>>

\* main() up to the call of accept_upload
main_start(port, bname, password) ==
    [pc |-> "up_listen", port |-> port, bname |-> bname,
     password |-> password,
     out |-> <<commands(port, bname, password)>>,
     tmp_dir |-> TRUE, staged |-> NoFile,
     up_sock |-> NoSock, down_sock |-> NoSock,
     backlog |-> <<>>, nconn |-> 0, upConns |-> {}, reset |-> {},
     conn |-> 0, open |-> {}, timeout |-> None, waited |-> 0,
     size |-> 0, rcvd |-> <<>>, late |-> FALSE,
     up_accepts |-> 0, down_accepts |-> 0, clientPw |-> "none",
     offset |-> 0, sent |-> [i \in 1..MaxConns |-> <<>>],
     ev |-> "start", status |-> None]

\* run is started with the default filename; twin with any other pair of
\* filename and password, on the same port
Init ==
    \E port \in Ports, bname \in Names, password \in Passwords :
        /\ <<bname, password>> # <<"file", "pw1">>
        /\ run = main_start(port, "file", "pw1")
        /\ twin = main_start(port, bname, password)

Listening(s) == s.up_sock.listening \/ s.down_sock.listening

(***************************** environment **********************************)
\* a client completes the TCP handshake with the listening socket and is
\* queued until accept() takes it
client_connect(s) ==
    [s EXCEPT !.nconn = @ + 1, !.ev = "connect",
              !.backlog = Append(@, s.nconn + 1),
              !.upConns = IF s.up_sock.listening THEN @ \cup {s.nconn + 1}
                          ELSE @]

can_connect(s) ==
    Listening(s) /\ Len(s.backlog) < BACKLOG /\ s.nconn < MaxConns

ClientConnect ==
    /\ can_connect(run) /\ can_connect(twin)
    /\ run' = client_connect(run) /\ twin' = client_connect(twin)

\* time passes while recv blocks
tick(s) == [s EXCEPT !.waited = @ + 1, !.ev = "tick"]

\* recv is blocked and its timeout, if any, has not expired
blocked(s) ==
    /\ s.pc \in {"recv_first", "recv_more"}
    /\ \A t \in s.timeout : s.waited < t

Tick ==
    /\ blocked(run) /\ blocked(twin)
    /\ run.waited < MaxWait /\ twin.waited < MaxWait
    /\ run' = tick(run) /\ twin' = tick(twin)

(***************************** accept_upload ********************************)
\* line 189
up_listen(s) == [s EXCEPT !.up_sock = listen_once(s.port), !.pc = "accept",
                          !.ev = "listen"]

UpListen ==
    /\ run.pc = "up_listen" /\ twin.pc = "up_listen"
    /\ run' = up_listen(run) /\ twin' = up_listen(twin)

\* lines 193-195: accept, settimeout(PROBE_WAIT), then block in recv
up_accept(s) ==
    settimeout([s EXCEPT !.conn = Head(s.backlog),
                         !.backlog = Tail(@),
                         !.open = @ \cup {Head(s.backlog)},
                         !.up_accepts = @ + 1,
                         !.rcvd = <<>>, !.waited = 0,
                         !.pc = "recv_first", !.ev = "accept"],
               Some(PROBE_WAIT))

UpAccept ==
    /\ run.pc = "accept" /\ twin.pc = "accept"
    /\ run.backlog # <<>> /\ twin.backlog # <<>>
    /\ run' = up_accept(run) /\ twin' = up_accept(twin)

\* the staged file opened before the first chunk is looked at
reject_probe_after_open(s) ==
    [s EXCEPT !.open = @ \ {s.conn}, !.staged = <<>>, !.pc = "accept"]

\* lines 202-204: no first chunk; close and accept again
reject_probe(s) == [conn_close(s) EXCEPT !.pc = "accept"]

\* the staged file opened for appending
open_ab(s) == [s EXCEPT !.staged = IF @ = NoFile THEN <<>> ELSE @]

\* lines 206-208: open(staged_path, "wb") truncates, then the first chunk
open_wb(s) == [s EXCEPT !.staged = <<>>]

\* a write that starts at position 0 every time
f_write_rewind(s, data) ==
    [s EXCEPT !.staged = data \o SubSeq(@, Len(data) + 1, Len(@))]

\* f.write(data)
f_write(s, data) == [s EXCEPT !.staged = @ \o data]

\* lines 197-208 when recv returns data within the timeout
recv_first_data(s, chunk) ==
    LET s1 == settimeout([s EXCEPT !.rcvd = @ \o chunk, !.waited = 0,
                                   !.ev = "data"], None)
        s2 == f_write(open_wb(s1), chunk)
    IN  [s2 EXCEPT !.size = @ + Len(chunk), !.pc = "recv_more"]

RecvFirstData ==
    \E chunk \in Chunks :
        /\ run.pc = "recv_first" /\ twin.pc = "recv_first"
        /\ blocked(run) /\ blocked(twin)
        /\ Len(chunk) <= MaxLen
        /\ run' = recv_first_data(run, chunk)
        /\ twin' = recv_first_data(twin, chunk)

\* an empty first chunk taken as a whole upload
recv_first_eof_staged(s) ==
    [s EXCEPT !.ev = "eof", !.timeout = {}, !.staged = <<>>,
              !.open = @ \ {s.conn}, !.pc = "down_listen",
              !.up_sock = [@ EXCEPT !.listening = FALSE],
              !.reset = @ \cup {s.backlog[i] : i \in DOMAIN s.backlog},
              !.backlog = <<>>,
              !.out = Append(@, <<"Upload complete", s.size>>)]

\* lines 197-204 when the peer closed without sending: recv returns b""
recv_first_eof(s) ==
    reject_probe(settimeout([s EXCEPT !.ev = "eof"], None))

RecvFirstEof ==
    /\ run.pc = "recv_first" /\ twin.pc = "recv_first"
    /\ blocked(run) /\ blocked(twin)
    /\ run' = recv_first_eof(run) /\ twin' = recv_first_eof(twin)

\* an exception handler that goes on without closing the connection
on_exception_noclose(s) == [s EXCEPT !.pc = "accept"]

\* lines 217-222: except Exception: close the connection, continue
on_exception(s) == [conn_close(s) EXCEPT !.pc = "accept"]

\* socket.timeout raised by recv: caught at line 198 for the first chunk
\* (first_chunk = b""), an Exception like any other at line 210
recv_timeout(s) ==
    IF s.pc = "recv_first"
    THEN reject_probe(settimeout([s EXCEPT !.ev = "timeout"], None))
    ELSE on_exception([s EXCEPT !.ev = "timeout"])

expired(s) ==
    /\ s.pc \in {"recv_first", "recv_more"}
    /\ \E t \in s.timeout : s.waited >= t

RecvTimeout ==
    /\ expired(run) /\ expired(twin)
    /\ run' = recv_timeout(run) /\ twin' = recv_timeout(twin)

\* lines 210-214: a later chunk
recv_more_data(s, data) ==
    LET s1 == [s EXCEPT !.rcvd = @ \o data, !.ev = "data",
                        !.late = @ \/ s.waited > PROBE_WAIT,
                        !.waited = 0]
    IN  [f_write(s1, data) EXCEPT !.size = @ + Len(data)]

RecvMoreData ==
    \E data \in Chunks :
        /\ run.pc = "recv_more" /\ twin.pc = "recv_more"
        /\ blocked(run) /\ blocked(twin)
        /\ Len(run.rcvd) + Len(data) <= MaxLen
        /\ run' = recv_more_data(run, data)
        /\ twin' = recv_more_data(twin, data)

\* end of stream answered by continue instead of break
recv_more_eof_continue(s) ==
    [s EXCEPT !.open = @ \ {s.conn}, !.ev = "eof", !.pc = "accept"]

\* the listening socket of the upload left open on return
recv_more_eof_noclose(s) ==
    [s EXCEPT !.open = @ \ {s.conn}, !.ev = "eof", !.pc = "down_listen",
              !.out = Append(@, <<"Upload complete", s.size>>)]

\* lines 211-216, 223-228 and 281-282: end of stream; close, break, close
\* the listening socket, return size, report it
recv_more_eof(s) ==
    LET s1 == sock_close(conn_close([s EXCEPT !.ev = "eof"]), "up_sock")
    IN  [print(s1, <<"Upload complete", s.size>>) EXCEPT !.pc = "down_listen"]

RecvMoreEof ==
    /\ run.pc = "recv_more" /\ twin.pc = "recv_more"
    /\ blocked(run) /\ blocked(twin)
    /\ run' = recv_more_eof(run) /\ twin' = recv_more_eof(twin)

\* an OSError (connection reset) raised by either recv, caught at line 217
recv_error(s) == on_exception([s EXCEPT !.ev = "error"])

RecvError ==
    /\ blocked(run) /\ blocked(twin)
    /\ run' = recv_error(run) /\ twin' = recv_error(twin)

\* an interrupt handler without its sys.exit
interrupt_upload_noexit(s) ==
    [s EXCEPT !.ev = "interrupt", !.pc = "down_listen",
              !.up_sock = [@ EXCEPT !.listening = FALSE],
              !.reset = @ \cup {s.backlog[i] : i \in DOMAIN s.backlog},
              !.backlog = <<>>,
              !.out = Append(@, <<"Interrupted during upload">>),
              !.staged = NoFile, !.tmp_dir = FALSE]

\* KeyboardInterrupt in accept_upload: not an Exception, so it leaves the
\* loop through the finally of lines 223-227 and reaches lines 283-293
interrupt_upload(s) ==
    LET s1 == sock_close([s EXCEPT !.ev = "interrupt"], "up_sock")
    IN  sys_exit(cleanup(print(s1, <<"Interrupted during upload">>)),
                 EXIT_INTERRUPT)

UploadPcs == {"up_listen", "accept", "recv_first", "recv_more"}
DownloadPcs == {"down_listen", "down_accept", "send"}

InterruptUpload ==
    /\ run.pc \in UploadPcs /\ twin.pc \in UploadPcs
    /\ run' = interrupt_upload(run) /\ twin' = interrupt_upload(twin)

\* bind or listen fails in listen_once (line 67-68): an OSError that
\* nothing catches; the traceback ends the process with status 1
listen_error(s) == sys_exit([s EXCEPT !.ev = "error"], 1)

ListenError ==
    /\ run.pc \in {"up_listen", "down_listen"}
    /\ twin.pc \in {"up_listen", "down_listen"}
    /\ run' = listen_error(run) /\ twin' = listen_error(twin)

(***************************** serve_download *******************************)
\* line 231
down_listen(s) ==
    [s EXCEPT !.down_sock = listen_once(s.port), !.pc = "down_accept",
              !.ev = "listen"]

DownListen ==
    /\ run.pc = "down_listen" /\ twin.pc = "down_listen"
    /\ run' = down_listen(run) /\ twin' = down_listen(twin)

\* lines 233-235: the one accept; open(staged_path, "rb")
down_accept(s, pw) ==
    [s EXCEPT !.conn = Head(s.backlog), !.backlog = Tail(@),
              !.open = @ \cup {Head(s.backlog)},
              !.down_accepts = @ + 1, !.clientPw = pw,
              !.timeout = None, !.offset = 0,
              !.pc = "send", !.ev = "accept"]

DownAccept ==
    \E pw \in ClientKnows :
        /\ run.pc = "down_accept" /\ twin.pc = "down_accept"
        /\ run.backlog # <<>> /\ twin.backlog # <<>>
        /\ run' = down_accept(run, pw) /\ twin' = down_accept(twin, pw)

\* f.read(CHUNK_SIZE) at the current position
f_read(s) ==
    IF s.staged = NoFile THEN <<>>
    ELSE SubSeq(s.staged, s.offset + 1,
                Min(s.offset + CHUNK_SIZE, Len(s.staged)))

\* a relay that serves only the client holding the password
deliver_if_password(s, bytes) ==
    IF s.clientPw = s.password THEN [s EXCEPT !.sent[s.conn] = @ \o bytes]
    ELSE s

\* the bytes the peer gets from conn.sendall(chunk)
deliver(s, bytes) == [s EXCEPT !.sent[s.conn] = @ \o bytes]

\* lines 237-240
send_chunk(s) ==
    [deliver(s, f_read(s)) EXCEPT !.offset = @ + Len(f_read(s)),
                                  !.ev = "send"]

SendChunk ==
    /\ run.pc = "send" /\ twin.pc = "send"
    /\ f_read(run) # <<>> /\ f_read(twin) # <<>>
    /\ run' = send_chunk(run) /\ twin' = send_chunk(twin)

\* a failed send answered by accepting the next client
send_error_retry(s, k) ==
    [s EXCEPT !.sent[s.conn] = @ \o SubSeq(f_read(s), 1, k),
              !.open = @ \ {s.conn}, !.ev = "error", !.pc = "down_accept"]

\* sendall raises (peer reset) after k bytes of the chunk went out: the
\* with blocks close the file and the connection, the finally closes the
\* listening socket, and main catches only KeyboardInterrupt
send_error(s, k) ==
    LET s1 == deliver([s EXCEPT !.ev = "error"], SubSeq(f_read(s), 1, k))
    IN  sys_exit(sock_close(conn_close(s1), "down_sock"), 1)

SendError ==
    \E k \in 0..(CHUNK_SIZE - 1) :
        /\ run.pc = "send" /\ twin.pc = "send"
        /\ k < Len(f_read(run)) /\ k < Len(f_read(twin))
        /\ run' = send_error(run, k) /\ twin' = send_error(twin, k)

\* lines 305-314: remove the file and the directory, print, return
main_end(s) == sys_exit(print(cleanup(s), <<"Done">>), 0)

\* the end of the file never noticed: the loop reads again
download_done_spin(s) == s

\* lines 238-249 and 301: read returns b""; shutdown, close, report
download_done(s) ==
    LET s1 == sock_close(conn_close([s EXCEPT !.ev = "eof"]), "down_sock")
    IN  main_end(print(s1, <<"Download complete">>))

DownloadDone ==
    /\ run.pc = "send" /\ twin.pc = "send"
    /\ f_read(run) = <<>> /\ f_read(twin) = <<>>
    /\ run' = download_done(run) /\ twin' = download_done(twin)

\* KeyboardInterrupt in serve_download: lines 245-249, then 302-303
interrupt_download(s) ==
    LET s1 == sock_close(conn_close([s EXCEPT !.ev = "interrupt"]),
                         "down_sock")
    IN  main_end(print(s1, <<"Interrupted during download">>))

InterruptDownload ==
    /\ run.pc \in DownloadPcs /\ twin.pc \in DownloadPcs
    /\ run' = interrupt_download(run) /\ twin' = interrupt_download(twin)

Next ==
    \/ ClientConnect \/ Tick
    \/ UpListen \/ UpAccept
    \/ RecvFirstData \/ RecvFirstEof \/ RecvTimeout
    \/ RecvMoreData \/ RecvMoreEof \/ RecvError
    \/ InterruptUpload \/ ListenError
    \/ DownListen \/ DownAccept
    \/ SendChunk \/ SendError \/ DownloadDone
    \/ InterruptDownload

Spec == Init /\ [][Next]_vars

(******************************* properties *********************************)
\* a message main() printed
Printed(s, msg) == \E i \in DOMAIN s.out : s.out[i][1] = msg

UploadComplete(s) == Printed(s, "Upload complete")
DownloadComplete(s) == Printed(s, "Download complete")
InterruptedUpload(s) == Printed(s, "Interrupted during upload")
InterruptedDownload(s) == Printed(s, "Interrupted during download")

\* the connections that got at least one byte from the server
Served(s) == {i \in 1..MaxConns : s.sent[i] # <<>>}

\* C1: when the download completes, the bytes sent to the download
\* connection are exactly the bytes received from the connection accepted
\* as the upload, in order, whatever the content and the chunking.
C1_RelayIsExact ==
    DownloadComplete(run) => run.sent[run.conn] = run.rcvd

\* a full-length upload, relayed after an earlier connection had failed
\* with bytes already written
C1_Witness ==
    /\ DownloadComplete(run)
    /\ Len(run.sent[run.conn]) = MaxLen
    /\ run.size > MaxLen

\* C2: the upload phase ends exactly when a connection that delivered at
\* least one byte reaches end-of-stream; the staged file then holds that
\* connection's bytes, and from then on no connection is accepted for
\* reading and nothing is written to the staged file.
C2_OneUpload ==
    [][ /\ (run.pc = "recv_more" /\ run'.ev = "eof") =>
               /\ run'.pc = "down_listen"
               /\ ~run'.up_sock.listening
               /\ run'.staged = run.rcvd
        /\ (run.pc \in UploadPcs /\ run'.pc \in DownloadPcs) =>
               /\ run.pc = "recv_more" /\ run'.ev = "eof"
               /\ Len(run.rcvd) >= 1
        /\ UploadComplete(run) =>
               /\ run'.up_accepts = run.up_accepts
               /\ run'.staged \in {run.staged, NoFile}
               /\ run'.rcvd = run.rcvd ]_vars

\* the upload was the second connection accepted, and a download client
\* has been accepted after it
C2_Witness ==
    /\ UploadComplete(run)
    /\ run.up_accepts = 2
    /\ run.down_accepts = 1
    /\ run.pc = "send"

\* C3: the staged content goes to at most one connection: one accept in
\* serve_download, without receive-timeout and without retry; when that
\* connection has ended, well or not, the listening socket is closed and
\* no other connection has got a staged byte.
C3_ServeOnce ==
    /\ [](/\ run.down_accepts <= 1
          /\ Cardinality(Served(run)) <= 1
          /\ (run.pc = "send" =>
                  run.timeout = None /\ Served(run) \subseteq {run.conn})
          /\ (run.down_accepts = 1 /\ run.pc # "send" =>
                  /\ run.pc = "exit"
                  /\ ~run.down_sock.listening
                  /\ Served(run) \subseteq {run.conn}))
    /\ [][run.pc = "send" /\ run'.pc # "send" => run'.pc = "exit"]_vars

\* the download client broke off after some bytes; another client was
\* waiting in the queue of the download socket and got nothing
C3_Witness ==
    /\ run.pc = "exit" /\ run.status = Some(1)
    /\ run.down_accepts = 1
    /\ run.sent[run.conn] # <<>>
    /\ \E i \in run.reset \ run.upConns : run.sent[i] = <<>>

\* C4: the download socket is opened only after the upload reached
\* end-of-stream and the upload socket was closed; it listens on the same
\* port; no client that connected during the upload phase, accepted or
\* left in the queue, gets a staged byte.
C4_Sequential ==
    /\ run.down_sock # NoSock =>
           /\ UploadComplete(run)
           /\ ~run.up_sock.listening
           /\ run.down_sock.port = run.up_sock.port
           /\ run.down_sock.port = run.port
    /\ \A i \in run.upConns : run.sent[i] = <<>>

\* a client was queued on the upload socket and never accepted; the
\* download went to a later client
C4_Witness ==
    /\ DownloadComplete(run)
    /\ \E i \in run.upConns : i \in run.reset /\ i < run.conn
    /\ run.sent[run.conn] # <<>>

\* C5: after a completed download, an interrupt during upload or an
\* interrupt during download, the staged file and its directory are gone
\* when the program has exited.
C5_CleanupOnExit ==
    (/\ run.pc = "exit"
     /\ \/ DownloadComplete(run)
        \/ InterruptedUpload(run)
        \/ InterruptedDownload(run))
    => run.staged = NoFile /\ ~run.tmp_dir

\* interrupted while sending the staged file
C5_Witness ==
    /\ run.pc = "exit"
    /\ InterruptedDownload(run)
    /\ run.sent[run.conn] # <<>>
    /\ run.staged = NoFile /\ ~run.tmp_dir

\* C6: a connection of the upload phase that sends nothing before
\* PROBE_WAIT expires, or closes without a byte, is closed and is not the
\* sender: staged file and byte count stay as they were, nothing is
\* reported, and the server accepts again on the same listening socket.
C6_ProbeFrame ==
    [][(run.pc = "recv_first" /\ run'.ev \in {"timeout", "eof"}) =>
           /\ run'.staged = run.staged
           /\ run'.size = run.size
           /\ run'.out = run.out
           /\ run.conn \notin run'.open
           /\ run'.pc = "accept"
           /\ run'.up_sock = run.up_sock /\ run'.up_sock.listening]_vars

\* a probe timed out after an earlier attempt had left bytes in the file
C6_Witness ==
    /\ run.ev = "timeout" /\ run.pc = "accept"
    /\ run.staged # NoFile /\ run.size > 0

\* C7: after the first chunk the connection has no timeout: a pause of
\* any length between later chunks does not drop the sender, and the
\* transfer is left only by end-of-stream, an error or an interrupt.
C7_TimeoutFirstChunkOnly ==
    /\ [](run.pc = "recv_more" => run.timeout = None)
    /\ [][run.pc = "recv_more" /\ run'.pc # "recv_more" =>
              run'.ev \in {"eof", "error", "interrupt"}]_vars

\* a later chunk arrived after a pause longer than PROBE_WAIT and the
\* upload completed
C7_Witness == run.late /\ UploadComplete(run) /\ run.staged = run.rcvd

\* C8: the byte count that main reports equals the length of the staged
\* file when the upload phase ends.
C8_SizeIsFileLength ==
    run.pc = "down_listen" =>
        /\ run.size = Len(run.staged)
        /\ Printed(run, "Upload complete")
        /\ run.out[Len(run.out)] = <<"Upload complete", Len(run.staged)>>

\* what an execution does, leaving out the password, the filename and the
\* command text printed from them
Observable(s) ==
    [s EXCEPT !.password = "", !.bname = "", !.out = Tail(@)]

\* C9: no authentication: two executions that differ only in password or
\* filename accept the same connections, stage the same bytes and serve
\* the same bytes; the download client gets the staged content whether
\* or not it holds the password.
C9_NoAuthentication ==
    /\ Observable(run) = Observable(twin)
    /\ \A s \in {run, twin} :
           DownloadComplete(s) => s.sent[s.conn] = s.rcvd /\ s.rcvd # <<>>

\* the two executions have different passwords, the client holds neither,
\* and it got the content from both
C9_Witness ==
    /\ run.password # twin.password
    /\ run.clientPw \notin {run.password, twin.password}
    /\ DownloadComplete(run) /\ DownloadComplete(twin)
    /\ run.sent[run.conn] = run.rcvd /\ run.rcvd # <<>>

\* C10: a KeyboardInterrupt anywhere in the upload phase closes the
\* upload socket and ends the program with status 130; the download phase
\* is not entered: no download socket, no staged byte sent.
C10_InterruptUpload ==
    /\ [][(run.pc \in UploadPcs /\ run'.ev = "interrupt") =>
              /\ run'.pc = "exit"
              /\ run'.status = Some(EXIT_INTERRUPT)
              /\ InterruptedUpload(run')]_vars
    /\ [](InterruptedUpload(run) =>
              /\ run.pc = "exit"
              /\ ~run.up_sock.listening
              /\ run.down_sock = NoSock
              /\ run.down_accepts = 0
              /\ Served(run) = {})

\* interrupted in mid-transfer, after bytes were written
C10_Witness ==
    /\ InterruptedUpload(run)
    /\ run.status = Some(EXIT_INTERRUPT)
    /\ Len(run.rcvd) >= 2 /\ run.size >= 2

\* C11: "Done. File served once and removed." is printed only when the
\* whole staged content went to exactly one download connection and the
\* staged file was then removed.
C11_DoneMeansServed ==
    Printed(run, "Done") =>
        /\ run.down_accepts = 1
        /\ Served(run) = {run.conn}
        /\ run.sent[run.conn] = run.rcvd
        /\ run.staged = NoFile

\* C12: an error after bytes of the connection were written closes that
\* connection and goes on accepting, without ending the upload phase; when
\* a later connection completes, the staged file holds that connection's
\* bytes only, also when it sent fewer bytes than the aborted one.
C12_AbortedAttemptLeavesNothing ==
    /\ [][(run.pc = "recv_more" /\ run'.ev = "error") =>
              /\ run'.pc = "accept"
              /\ run.conn \notin run'.open
              /\ run'.up_sock.listening
              /\ run'.staged = run.staged
              /\ ~UploadComplete(run')]_vars
    /\ [](run.pc = "down_listen" => run.staged = run.rcvd)

\* the upload completed on the second connection, which sent fewer bytes
\* than the first one had written before it failed
C12_Witness ==
    /\ run.pc = "down_listen"
    /\ run.up_accepts = 2
    /\ run.size - Len(run.staged) > Len(run.staged)
    /\ run.staged = run.rcvd

\* C13: on every way the process ends after the temporary directory was
\* made, a socket error while sending and a failed bind or listen
\* included, the staged file and the directory are gone at exit.
C13_CleanupOnEveryExit ==
    run.pc = "exit" => run.staged = NoFile /\ ~run.tmp_dir

\* C14: when the upload phase has completed, the staged file exists and
\* holds at least one byte, and the size returned is at least 1; a sender
\* that closes without a byte is a probe and never completes the upload.
C14_UploadNeverEmpty ==
    /\ [](run.pc \in DownloadPcs =>
              /\ run.staged # NoFile
              /\ Len(run.staged) >= 1
              /\ run.size >= 1
              /\ \E i \in DOMAIN run.out :
                     /\ run.out[i][1] = "Upload complete"
                     /\ run.out[i][2] >= 1)
    /\ [][(run.pc = "recv_first" /\ run'.ev = "eof") =>
              run'.pc \in UploadPcs /\ ~UploadComplete(run')]_vars

\* the smallest upload, completed after a connection that was turned away
C14_Witness ==
    /\ run.pc = "down_listen"
    /\ run.up_accepts = 2
    /\ Len(run.staged) = 1 /\ run.size = 1

\* the listening sockets that are open
ListeningSockets(s) ==
    {w \in {"up_sock", "down_sock"} : s[w].listening}

\* C15: at any time at most one listening socket and at most one accepted
\* connection are open: an upload connection is closed before the next
\* accept, and the upload socket is closed before the download socket is
\* made.
C15_OneSocketOneConnection ==
    /\ Cardinality(ListeningSockets(run)) <= 1
    /\ Cardinality(run.open) <= 1
    /\ run.pc \in {"accept", "down_listen", "down_accept"} => run.open = {}
    /\ run.pc \in {"recv_first", "recv_more", "send"} =>
           run.open = {run.conn}
    /\ run.pc \in DownloadPcs => ~run.up_sock.listening

\* the second upload connection is being read and is the only one open
C15_Witness ==
    /\ run.pc = "recv_more"
    /\ run.up_accepts = 2
    /\ run.open = {run.conn}
    /\ ListeningSockets(run) = {"up_sock"}

\* The process is sequential: a call that can return does return.  accept
\* returns when a client is queued, and the steps of the download phase
\* are taken when they stay possible; what clients and the keyboard do is
\* left open.
SpecFair ==
    /\ Spec
    /\ WF_vars(UpAccept)
    /\ WF_vars(DownListen)
    /\ WF_vars(DownAccept)
    /\ WF_vars(SendChunk)
    /\ WF_vars(DownloadDone)

\* a sender completed its upload and a download client has connected
ClientArrived(s) ==
    \/ s.pc = "down_accept" /\ s.backlog # <<>>
    \/ s.pc = "send"

\* the download finished and the staged data are removed
FinishedClean(s) ==
    /\ s.pc = "exit" /\ s.status = Some(0)
    /\ DownloadComplete(s)
    /\ s.sent[s.conn] = s.rcvd
    /\ s.staged = NoFile /\ ~s.tmp_dir

\* C16: once a sender has delivered data and closed its stream, after
\* any number of rejected connections, and a client has connected for the
\* download, the program ends; unless that client fails or the program is
\* interrupted it ends with the download finished and the staged data
\* removed.  Until a connection has delivered data and reached
\* end-of-stream the program stays in the upload phase, without download
\* socket, and goes on accepting however many connections it turned away.
C16_Termination ==
    /\ (run.pc = "accept" /\ run.backlog # <<>>) ~> (run.pc # "accept")
    /\ ClientArrived(run) ~>
           (run.pc = "exit" /\ (FinishedClean(run)
                                \/ run.ev \in {"error", "interrupt"}))
    /\ [](~UploadComplete(run) /\ run.pc # "exit" =>
              /\ run.pc \in UploadPcs
              /\ run.down_sock = NoSock
              /\ (run.pc = "accept" => run.up_sock.listening))

\* every connection but the last was turned away in the upload phase, and
\* the download still finished
C16_Witness ==
    /\ FinishedClean(run)
    /\ run.up_accepts = MaxConns - 1
    /\ run.nconn = MaxConns

====
